---- MODULE Spec2Model ----
(***************************************************************************)
(* A model of the hardware test suite: the run loop of                     *)
(* HardwareTestRunner (hardware_tests.py), the report functions of         *)
(* ReportGenerator (app/reporting.py) and the request handlers of the web  *)
(* server (app/server.py).                                                  *)
(*                                                                         *)
(* Threads are interleaved at the granularity of one statement that reads  *)
(* or writes shared state (one attribute of the runner, one entry of the   *)
(* result dict, the global test_runner, the clock, one file).               *)
(*                                                                         *)
(* A probe result is a record holding 'status' and the fields that the     *)
(* report functions read ('warnings', 'throttled', 'temp_after',           *)
(* 'errors_detected', 'red_flags') or that carry a fault ('error',         *)
(* 'message'); the measurement fields and the 'timestamp' that no modelled *)
(* code reads are left out of the records.                                  *)
(***************************************************************************)
EXTENDS Integers, Sequences, FiniteSets, TLC

\* ------------------------------------------------------------------ bounds

\* Probes of one scenario that may yield something else than their healthy
\* result although the configuration allows the healthy one.
MaxAnomalies == 2
\* Entries that may be missing from config.yaml.
MaxMissing == 1
\* POST /api/start_tests requests of one scenario.
MaxStarts == 2
\* GET /api/export_report requests of one scenario.
MaxExports == 2
\* Ticks the wall clock may advance in one scenario.
MaxClock == 2
\* Ticks of the wall clock in one second: datetime.now() is finer than the
\* second that strftime('%Y%m%d_%H%M%S') keeps.
TicksPerSecond == 2
\* Messages that a 'warnings' or a 'red_flags' list of a result passed to
\* the report functions may hold.
MaxMessages == 2

\* ------------------------------------------------------------ configuration

ConfigKeys ==
    { "battery_cycles_critical", "battery_health_warning", "cpu_temp_warning",
      "cpu_temp_critical", "stress_duration", "memory_test_mb" }

\* The configurations yaml.safe_load may hand to the server: the entries
\* present in config.yaml.
Configs == { c \in SUBSET ConfigKeys : Cardinality(ConfigKeys \ c) <= MaxMissing }

\* ------------------------------------------------------------------ probes

Return(v) == [kind |-> "return", value |-> v]
Raise(m) == [kind |-> "raise", message |-> m]

KeyError(k) == "KeyError: " \o k

test_system_info(cfg) ==
    { Return([status |-> "pass"]),
      Return([status |-> "fail", error |-> "CalledProcessError"]) }

\* Both threshold look-ups are inside the try block: a missing threshold is
\* caught by the probe itself and returned as an 'error' result.  The
\* look-up of battery_health_warning is reached only on a machine that has a
\* battery (psutil.sensors_battery() is not None).
test_battery(cfg) ==
    LET err == { Return([status |-> "error", error |-> "CalledProcessError"]) }
        ok == { Return([status |-> "pass", warnings |-> << >>]),
                Return([status |-> "warning",
                        warnings |-> << "High cycle count: 1200" >>]),
                Return([status |-> "fail",
                        warnings |-> << "Battery condition: Service Recommended" >>]) }
        low == { Return([status |-> "warning",
                         warnings |-> << "High cycle count: 1200", "Low charge: 12%" >>]) }
    IN  IF "battery_cycles_critical" \notin cfg
          THEN { Return([status |-> "error",
                         error |-> KeyError("battery_cycles_critical")]) } \cup err
          ELSE IF "battery_health_warning" \notin cfg
                 THEN { Return([status |-> "error",
                                error |-> KeyError("battery_health_warning")]) }
                      \cup ok \cup err
                 ELSE ok \cup low \cup err

test_camera(cfg) ==
    { Return([status |-> "pass", detected |-> TRUE]),
      Return([status |-> "fail", detected |-> FALSE]) }

test_microphone(cfg) ==
    { Return([status |-> "pass", detected |-> TRUE]),
      Return([status |-> "fail", detected |-> FALSE]) }

test_audio(cfg) ==
    { Return([status |-> "pass", devices_found |-> 1]),
      Return([status |-> "fail", devices_found |-> 0]) }

\* No try block: a fault of Path.exists() leaves the probe.
test_midi(cfg) ==
    { Return([status |-> "pass", available |-> TRUE]),
      Return([status |-> "fail", available |-> FALSE]),
      Raise("PermissionError") }

test_bluetooth(cfg) ==
    { Return([status |-> "pass", detected |-> TRUE]),
      Return([status |-> "fail", detected |-> FALSE]) }

test_wifi(cfg) ==
    { Return([status |-> "pass", detected |-> TRUE]),
      Return([status |-> "fail", detected |-> FALSE]) }

test_usb(cfg) ==
    { Return([status |-> "pass", devices_found |-> 1]),
      Return([status |-> "fail", devices_found |-> 0]) }

\* stress_duration is looked up before the try block: a missing entry leaves
\* the probe as a KeyError.  cpu_temp_critical is looked up inside it.
test_cpu_stress(cfg) ==
    IF "stress_duration" \notin cfg
      THEN { Raise(KeyError("stress_duration")) }
      ELSE IF "cpu_temp_critical" \notin cfg
             THEN { Return([status |-> "error", error |-> KeyError("cpu_temp_critical")]),
                    Return([status |-> "error", error |-> "CPU stress test timeout"]) }
             ELSE { Return([status |-> "pass", throttled |-> FALSE, temp_after |-> 60]),
                    Return([status |-> "warning", throttled |-> TRUE, temp_after |-> 95]),
                    Return([status |-> "error", error |-> "CPU stress test timeout"]) }

\* memory_test_mb is looked up before the try block.
test_memory_stress(cfg) ==
    IF "memory_test_mb" \notin cfg
      THEN { Raise(KeyError("memory_test_mb")) }
      ELSE { Return([status |-> "pass", errors_detected |-> FALSE]),
             Return([status |-> "fail", errors_detected |-> TRUE]),
             Return([status |-> "error", error |-> "FileNotFoundError"]) }

test_ssd_health(cfg) ==
    { Return([status |-> "pass"]),
      Return([status |-> "error", error |-> "PermissionError"]) }

\* Both look-ups are inside a bare except; cpu_temp_warning is reached only
\* when the temperature is not above cpu_temp_critical.
test_thermal(cfg) ==
    LET err == Return([status |-> "error", error |-> "Cannot read temperature"])
    IN  IF "cpu_temp_critical" \notin cfg
          THEN { err }
          ELSE IF "cpu_temp_warning" \notin cfg
                 THEN { Return([status |-> "critical"]), err }
                 ELSE { Return([status |-> "pass"]), Return([status |-> "warning"]),
                        Return([status |-> "critical"]), err }

test_authenticity(cfg) ==
    { Return([status |-> "pass", red_flags |-> << >>]),
      Return([status |-> "warning", red_flags |-> << "Battery condition not normal" >>]),
      Return([status |-> "error", error |-> "CalledProcessError"]) }

\* The list of (name, test_func) pairs of run_all_tests.
tests ==
    << "System Information", "Battery Health", "Camera Module", "Microphone",
       "Audio System", "MIDI System", "Bluetooth", "Wi-Fi", "USB/Thunderbolt",
       "CPU Stress Test", "Memory Endurance", "SSD Health", "Thermal Monitoring",
       "Part Authenticity" >>

test_func(name, cfg) ==
    CASE name = "System Information" -> test_system_info(cfg)
      [] name = "Battery Health" -> test_battery(cfg)
      [] name = "Camera Module" -> test_camera(cfg)
      [] name = "Microphone" -> test_microphone(cfg)
      [] name = "Audio System" -> test_audio(cfg)
      [] name = "MIDI System" -> test_midi(cfg)
      [] name = "Bluetooth" -> test_bluetooth(cfg)
      [] name = "Wi-Fi" -> test_wifi(cfg)
      [] name = "USB/Thunderbolt" -> test_usb(cfg)
      [] name = "CPU Stress Test" -> test_cpu_stress(cfg)
      [] name = "Memory Endurance" -> test_memory_stress(cfg)
      [] name = "SSD Health" -> test_ssd_health(cfg)
      [] name = "Thermal Monitoring" -> test_thermal(cfg)
      [] name = "Part Authenticity" -> test_authenticity(cfg)

total_tests == Len(tests)

TestNames == { tests[i] : i \in 1..total_tests }

\* ------------------------------------------------------------------- state

RunnerIds == 1..MaxStarts

VARIABLES
    config,        \* server.config: the entries present in config.yaml
    test_runner,   \* server.test_runner: 0 is None, else the runner object
    started,       \* HardwareTestRunner objects constructed so far
    results,       \* results[r]: self.results, a dict name -> result
    current_test,  \* current_test[r]: self.current_test ("None" is None)
    progress,      \* progress[r]: self.progress
    complete,      \* complete[r]: self.complete
    pc,            \* pc[r]: the line the thread of run_all_tests is at
    idx,           \* idx[r]: the loop index of run_all_tests
    outcome,       \* outcome[r]: what each probe invocation returned or raised
    anomalies,     \* unhealthy outcomes drawn so far
    \* the handler of GET /api/test_status
    st_pc,         \* the line the handler is at
    st_runner,     \* the runner whose get_status it called
    st_ct,         \* the value read for 'current_test'
    st_p,          \* the value read for 'progress'
    st_last,       \* the last response it returned (<< >> before the first)
    st_held,       \* the triples st_runner held since get_status was called
    \* the handler of GET /api/export_report
    ex_pc,         \* the line the handler is at
    ex_runner,     \* the runner whose results dict export_full_report was given
    ex_ts,         \* timestamp of export_full_report
    ex_flags,      \* red_flags_data
    ex_summary,    \* summary
    ex_size,       \* the size of the results dict when its iteration began
    ex_report,     \* full_report as json.dump serialized it (<< >>: not yet)
    exports,       \* calls of the handler so far
    files,         \* files[name]: the calls that wrote the file, in order
    clock,         \* the wall clock, in ticks
    \* history of the readers
    st_calm,       \* no thread changed the runner since get_status was called
    st_calm_calls, \* get_status calls that returned since a thread last did, up to 2
    rs_calm,       \* nor since the caller's first get_results
    \* a caller of get_results that calls it twice in a row
    rs_pc,         \* the calls it has made of the two
    rs_value,      \* what the last call returned (<< >>: nothing held)
    \* a call of the report functions
    rp_pc,         \* the function the caller is to call next
    rp_results,    \* the result collection it passes
    rp_flags,      \* what detect_red_flags returned or raised
    rp_summary,    \* what generate_summary returned
    \* the handler of GET /api/results
    rq_pc,         \* the line the handler is at
    rq_runner,     \* the runner it found in the global test_runner last
    rq_size,       \* the size of the results dict when jsonify began
    rq_response    \* the response, as far as it is built (<< >>: nothing)

core_vars ==
    << config, test_runner, started, results, current_test, progress, complete,
       pc, idx, outcome, anomalies >>

status_vars == << st_pc, st_runner, st_ct, st_p, st_last >>

export_vars ==
    << ex_pc, ex_runner, ex_ts, ex_flags, ex_summary, ex_size, ex_report, exports,
       files, clock >>

hist_vars == << st_held, st_calm, st_calm_calls, rs_calm >>

client_vars == << rs_pc, rs_value >>

report_vars == << rp_pc, rp_results, rp_flags, rp_summary >>

results_vars == << rq_pc, rq_runner, rq_size, rq_response >>

other_vars == << report_vars, client_vars, results_vars >>

vars ==
    << core_vars, status_vars, hist_vars, export_vars, client_vars, report_vars,
       results_vars >>

\* What get_status returns when it is atomic: the three attributes of runner r.
Triple(r) ==
    [current_test |-> current_test[r], progress |-> progress[r], complete |-> complete[r]]

InGetStatus == st_pc \in { "G393", "G394" }

\* History: a thread other than the readers changed the state of a runner.
Disturb ==
    /\ st_calm' = FALSE
    /\ st_calm_calls' = 0
    /\ rs_calm' = FALSE

\* History of a step of the thread of runner r: while get_status runs on
\* that runner, every triple the runner comes to hold is recorded.
Track(r) ==
    /\ st_held' =
           IF InGetStatus /\ st_runner = r
             THEN st_held \cup { [current_test |-> current_test'[r],
                                  progress |-> progress'[r],
                                  complete |-> complete'[r]] }
             ELSE st_held
    /\ Disturb

\* d[k] = v of a Python dict: the key is added, or its value replaced.
Put(d, k, v) == [x \in DOMAIN d \cup {k} |-> IF x = k THEN v ELSE d[x]]

EmptyDict == [x \in {} |-> x]

\* ---------------------------------------------------------------- run loop

Healthy(name, cfg) ==
    { o \in test_func(name, cfg) : o.kind = "return" /\ o.value.status = "pass" }

\* The outcomes a probe invocation may have: every outcome of the probe while
\* the scenario may still draw an anomaly, or when the configuration rules
\* the healthy result out; the healthy result otherwise.
Outcomes(name, cfg, lim) ==
    IF anomalies < lim \/ Healthy(name, cfg) = {}
      THEN test_func(name, cfg)
      ELSE Healthy(name, cfg)

Drawn(name, cfg, o) ==
    IF o \notin Healthy(name, cfg) /\ Healthy(name, cfg) # {}
      THEN anomalies + 1
      ELSE anomalies

\* HardwareTestRunner(config)
NewRunner(r) ==
    /\ results' = [results EXCEPT ![r] = EmptyDict]
    /\ current_test' = [current_test EXCEPT ![r] = "None"]
    /\ progress' = [progress EXCEPT ![r] = 0]
    /\ complete' = [complete EXCEPT ![r] = FALSE]
    /\ idx' = [idx EXCEPT ![r] = 0]
    /\ outcome' = [outcome EXCEPT ![r] = EmptyDict]

\* self.complete = False
RunBegin(r) ==
    /\ pc[r] = "L25"
    /\ complete' = [complete EXCEPT ![r] = FALSE]
    /\ pc' = [pc EXCEPT ![r] = "L26"]
    /\ UNCHANGED << config, test_runner, started, results, current_test, progress,
                    idx, outcome, anomalies >>
    /\ UNCHANGED << results_vars, status_vars, export_vars, report_vars, client_vars >>
    /\ Track(r)

\* self.progress = 0, then the loop is entered
RunReset(r) ==
    /\ pc[r] = "L26"
    /\ progress' = [progress EXCEPT ![r] = 0]
    /\ idx' = [idx EXCEPT ![r] = 0]
    /\ pc' = [pc EXCEPT ![r] = IF total_tests > 0 THEN "L48" ELSE "L65"]
    /\ UNCHANGED << config, test_runner, started, results, current_test, complete,
                    outcome, anomalies >>
    /\ UNCHANGED << results_vars, status_vars, export_vars, report_vars, client_vars >>
    /\ Track(r)

\* self.current_test = name
MarkCurrent(r) ==
    /\ pc[r] = "L48"
    /\ current_test' = [current_test EXCEPT ![r] = tests[idx[r] + 1]]
    /\ pc' = [pc EXCEPT ![r] = "L52"]
    /\ UNCHANGED << config, test_runner, started, results, progress, complete,
                    idx, outcome, anomalies >>
    /\ UNCHANGED << results_vars, status_vars, export_vars, report_vars, client_vars >>
    /\ Track(r)

\* result = test_func(): the probe is entered
ProbeCall(r) ==
    /\ pc[r] = "L52"
    /\ pc' = [pc EXCEPT ![r] = "probe"]
    /\ UNCHANGED << config, test_runner, started, results, current_test, progress,
                    complete, idx, outcome, anomalies >>
    /\ UNCHANGED << results_vars, status_vars, export_vars, report_vars, client_vars >>
    /\ Track(r)

Stored_StatusOnly(v) == [status |-> v.status]

\* What the try block stores for a returned result: the result itself, which
\* the except clause replaces when the print of result['status'] faults.
Stored(v) ==
    IF "status" \in DOMAIN v
      THEN v
      ELSE [status |-> "error", message |-> KeyError("status")]

\* What the except clause stores for a raised fault.
Synthesized(m) == [status |-> "error", message |-> m]

\* The probe returns: self.results[name] = result
ProbeReturn(r, lim) ==
    /\ pc[r] = "probe"
    /\ LET name == tests[idx[r] + 1] IN
       \E o \in Outcomes(name, config, lim) :
          /\ o.kind = "return"
          /\ results' = [results EXCEPT ![r] = Put(@, name, Stored(o.value))]
          /\ outcome' = [outcome EXCEPT ![r] = Put(@, name, o)]
          /\ anomalies' = Drawn(name, config, o)
    /\ pc' = [pc EXCEPT ![r] = "L63"]
    /\ UNCHANGED << config, test_runner, started, current_test, progress, complete, idx >>
    /\ UNCHANGED << results_vars, status_vars, export_vars, report_vars, client_vars >>
    /\ Track(r)

\* The fault leaves run_all_tests and ends its thread.
ProbeRaise_Propagates(r, lim) ==
    /\ pc[r] = "probe"
    /\ LET name == tests[idx[r] + 1] IN
       \E o \in Outcomes(name, config, lim) :
          /\ o.kind = "raise"
          /\ outcome' = [outcome EXCEPT ![r] = Put(@, name, o)]
          /\ anomalies' = Drawn(name, config, o)
    /\ pc' = [pc EXCEPT ![r] = "dead"]
    /\ UNCHANGED << config, test_runner, started, results, current_test, progress,
                    complete, idx >>
    /\ UNCHANGED << results_vars, status_vars, export_vars, report_vars, client_vars >>
    /\ Track(r)

\* The probe raises: except Exception as e: self.results[name] = {...}
ProbeRaise(r, lim) ==
    /\ pc[r] = "probe"
    /\ LET name == tests[idx[r] + 1] IN
       \E o \in Outcomes(name, config, lim) :
          /\ o.kind = "raise"
          /\ results' = [results EXCEPT ![r] = Put(@, name, Synthesized(o.message))]
          /\ outcome' = [outcome EXCEPT ![r] = Put(@, name, o)]
          /\ anomalies' = Drawn(name, config, o)
    /\ pc' = [pc EXCEPT ![r] = "L63"]
    /\ UNCHANGED << config, test_runner, started, current_test, progress, complete, idx >>
    /\ UNCHANGED << results_vars, status_vars, export_vars, report_vars, client_vars >>
    /\ Track(r)

Percent_OffByOne(i) == (i * 100) \div total_tests

Percent_Remaining(i) == ((total_tests - i) * 100) \div total_tests

\* round() of Python: to the nearest integer, a tie to the even one.
PyRound(n, d) ==
    LET q == n \div d
        twice == 2 * (n % d)
    IN  IF twice < d THEN q
        ELSE IF twice > d THEN q + 1
        ELSE IF q % 2 = 0 THEN q ELSE q + 1

\* The percentage that counts the probe after the one just attempted
Percent_Ahead(i) == ((i + 2) * 100) \div total_tests

Percent_Rounded(i) == PyRound((i + 1) * 100, total_tests)

\* int(((idx + 1) / total_tests) * 100), idx counted from 0.  The quotient
\* and the product are binary64 values; for total_tests = 14 the product is
\* exact at idx + 1 = 7 and 14 and otherwise further than 0.07 from an
\* integer, so that int() of it is the floor of the exact value.
Percent(i) == ((i + 1) * 100) \div total_tests

\* A loop that passes over the probe after the one it has just attempted
SetProgress_SkipsNext(r) ==
    /\ pc[r] = "L63"
    /\ progress' = [progress EXCEPT ![r] = Percent(idx[r])]
    /\ idx' = [idx EXCEPT ![r] = IF @ + 2 < total_tests THEN @ + 2 ELSE total_tests]
    /\ pc' = [pc EXCEPT ![r] = IF idx[r] + 2 < total_tests THEN "L48" ELSE "L65"]
    /\ UNCHANGED << config, test_runner, started, results, current_test, complete,
                    outcome, anomalies >>
    /\ UNCHANGED << results_vars, status_vars, export_vars, report_vars, client_vars >>
    /\ Track(r)

\* self.progress = int(...), then the next iteration or the end of the loop
SetProgress(r) ==
    /\ pc[r] = "L63"
    /\ progress' = [progress EXCEPT ![r] = Percent(idx[r])]
    /\ idx' = [idx EXCEPT ![r] = @ + 1]
    /\ pc' = [pc EXCEPT ![r] = IF idx[r] + 1 < total_tests THEN "L48" ELSE "L65"]
    /\ UNCHANGED << config, test_runner, started, results, current_test, complete,
                    outcome, anomalies >>
    /\ UNCHANGED << results_vars, status_vars, export_vars, report_vars, client_vars >>
    /\ Track(r)

\* self.complete = True
SetComplete(r) ==
    /\ pc[r] = "L65"
    /\ complete' = [complete EXCEPT ![r] = TRUE]
    /\ pc' = [pc EXCEPT ![r] = "L66"]
    /\ UNCHANGED << config, test_runner, started, results, current_test, progress,
                    idx, outcome, anomalies >>
    /\ UNCHANGED << results_vars, status_vars, export_vars, report_vars, client_vars >>
    /\ Track(r)

\* self.current_test = "Complete", and run_all_tests returns
SetSentinel(r) ==
    /\ pc[r] = "L66"
    /\ current_test' = [current_test EXCEPT ![r] = "Complete"]
    /\ pc' = [pc EXCEPT ![r] = "done"]
    /\ UNCHANGED << config, test_runner, started, results, progress, complete,
                    idx, outcome, anomalies >>
    /\ UNCHANGED << results_vars, status_vars, export_vars, report_vars, client_vars >>
    /\ Track(r)

\* One step of the thread that runs run_all_tests of runner r.
run_all_tests(r, lim) ==
    \/ RunBegin(r)
    \/ RunReset(r)
    \/ MarkCurrent(r)
    \/ ProbeCall(r)
    \/ ProbeReturn(r, lim)
    \/ ProbeRaise(r, lim)
    \/ SetProgress(r)
    \/ SetComplete(r)
    \/ SetSentinel(r)

\* ----------------------------------------------------------------- reports

\* d.get(k, default)
Get(d, k, default) == IF k \in DOMAIN d THEN d[k] ELSE default

\* sep.join(seq)
RECURSIVE Join(_, _)
Join(seq, sep) ==
    IF Len(seq) = 0 THEN ""
    ELSE IF Len(seq) = 1 THEN seq[1]
    ELSE seq[1] \o sep \o Join(Tail(seq), sep)

\* test_name.replace(' Module', '').replace(' System', '')
ShortName(n) ==
    CASE n = "Camera Module" -> "Camera"
      [] n = "Audio System" -> "Audio"
      [] OTHER -> n

\* The list of components without its last element
DetectedComponents_NoWifi == << "Camera Module", "Microphone", "Audio System", "Bluetooth" >>

DetectedComponents == << "Camera Module", "Microphone", "Audio System", "Bluetooth", "Wi-Fi" >>

\* sum(1 for r in results.values() if r.get('status') == status)
CountStatus(res, status) ==
    Cardinality({ n \in DOMAIN res : Get(res[n], "status", "None") = status })

\* sum(1 for f in red_flags if f.get('severity') == severity)
CountSeverity(red_flags, severity) ==
    Cardinality({ i \in 1..Len(red_flags) : red_flags[i].severity = severity })

\* round(x, 1) of the value n / d >= 0, in tenths: the nearest tenth, a tie to
\* the even one.  Scores and rates are kept in tenths: 829 is 82.9.  The
\* binary64 value that Python rounds and the exact one round alike for the
\* up to 14 entries that a result collection holds.
RoundTenths(n, d) == PyRound(10 * n, d)

\* _calculate_health_score without the max(0, ...) of its last line
calculate_health_score_Unclamped(res, red_flags) ==
    LET total == Cardinality(DOMAIN res)
        penalty == CountSeverity(red_flags, "critical") * 20
                   + CountSeverity(red_flags, "high") * 10
                   + CountSeverity(red_flags, "medium") * 5
    IN  IF total > 0
          THEN (1000 * CountStatus(res, "pass")) \div total - 10 * penalty
          ELSE 0

\* _calculate_health_score counting a 'warning' result as passed
calculate_health_score_WarningPasses(res, red_flags) ==
    LET total == Cardinality(DOMAIN res)
        passed == CountStatus(res, "pass") + CountStatus(res, "warning")
        penalty == CountSeverity(red_flags, "critical") * 20
                   + CountSeverity(red_flags, "high") * 10
                   + CountSeverity(red_flags, "medium") * 5
    IN  IF total > 0 /\ 100 * passed - penalty * total > 0
          THEN RoundTenths(100 * passed - penalty * total, total)
          ELSE 0

\* _calculate_health_score with the penalty of a 'medium' flag for a 'high' one
calculate_health_score_HighAsMedium(res, red_flags) ==
    LET total == Cardinality(DOMAIN res)
        passed == CountStatus(res, "pass")
        penalty == CountSeverity(red_flags, "critical") * 20
                   + CountSeverity(red_flags, "high") * 5
                   + CountSeverity(red_flags, "medium") * 5
    IN  IF total > 0 /\ 100 * passed - penalty * total > 0
          THEN RoundTenths(100 * passed - penalty * total, total)
          ELSE 0

\* _calculate_health_score with the penalty of a 'high' flag for a 'critical' one
calculate_health_score_CriticalAsHigh(res, red_flags) ==
    LET total == Cardinality(DOMAIN res)
        passed == CountStatus(res, "pass")
        penalty == CountSeverity(red_flags, "critical") * 10
                   + CountSeverity(red_flags, "high") * 10
                   + CountSeverity(red_flags, "medium") * 5
    IN  IF total > 0 /\ 100 * passed - penalty * total > 0
          THEN RoundTenths(100 * passed - penalty * total, total)
          ELSE 0

\* ReportGenerator._calculate_health_score, in tenths
calculate_health_score(res, red_flags) ==
    LET total == Cardinality(DOMAIN res)
        passed == CountStatus(res, "pass")
        penalty == CountSeverity(red_flags, "critical") * 20
                   + CountSeverity(red_flags, "high") * 10
                   + CountSeverity(red_flags, "medium") * 5
    IN  IF total > 0 /\ 100 * passed - penalty * total > 0
          THEN RoundTenths(100 * passed - penalty * total, total)
          ELSE 0

\* The rules in another order: the flags of the highest severity first
RuleOrder_BySeverity(battery_red, cpu_red, mem_red, detection_red, auth_red) ==
    mem_red \o battery_red \o cpu_red \o auth_red \o detection_red

\* red_flags.append(...) of the five rules, in the order of the statements
RuleOrder(battery_red, cpu_red, mem_red, detection_red, auth_red) ==
    battery_red \o cpu_red \o mem_red \o detection_red \o auth_red

\* ReportGenerator.detect_red_flags: the value it returns, or the KeyError
\* that cpu_test['temp_after'] raises for a throttled result without it.
detect_red_flags(res) ==
    LET Red(c, s, m, rec) ==
            [component |-> c, severity |-> s, message |-> m, recommendation |-> rec]
        battery == res["Battery Health"]
        warnings == Get(battery, "warnings", << >>)
        battery_red ==
            IF "Battery Health" \in DOMAIN res /\ battery.status \in { "fail", "warning" }
              THEN [i \in 1..Len(warnings) |->
                       Red("Battery", "high", warnings[i], "Consider battery replacement")]
              ELSE << >>
        battery_green ==
            IF "Battery Health" \in DOMAIN res /\ battery.status = "pass"
              THEN << "Battery health normal" >>
              ELSE << >>
        cpu_test == res["CPU Stress Test"]
        throttled == "CPU Stress Test" \in DOMAIN res /\ Get(cpu_test, "throttled", FALSE)
        cpu_red ==
            IF throttled
              THEN << Red("CPU/Thermal", "high",
                          "Thermal throttling detected at "
                              \o ToString(cpu_test.temp_after) \o "C",
                          "Check cooling system, thermal paste may need replacement") >>
              ELSE << >>
        cpu_green ==
            IF "CPU Stress Test" \in DOMAIN res /\ ~throttled
              THEN << "CPU thermal performance optimal" >>
              ELSE << >>
        mem_test == res["Memory Endurance"]
        errors == "Memory Endurance" \in DOMAIN res /\ Get(mem_test, "errors_detected", FALSE)
        mem_red ==
            IF errors
              THEN << Red("Memory", "critical", "Memory errors detected during stress test",
                          "CRITICAL: Faulty RAM module - replacement required") >>
              ELSE << >>
        mem_green ==
            IF "Memory Endurance" \in DOMAIN res /\ ~errors
              THEN << "Memory integrity verified" >>
              ELSE << >>
        failed == SelectSeq(DetectedComponents,
                            LAMBDA n : n \in DOMAIN res /\ res[n].status = "fail")
        failed_components == [i \in 1..Len(failed) |-> ShortName(failed[i])]
        detection_red ==
            IF Len(failed_components) > 0
              THEN << Red("Hardware Detection", "medium",
                          "Failed to detect: " \o Join(failed_components, ", "),
                          "Possible counterfeit or damaged components") >>
              ELSE << >>
        auth == IF "Part Authenticity" \in DOMAIN res
                  THEN Get(res["Part Authenticity"], "red_flags", << >>)
                  ELSE << >>
        auth_red ==
            [i \in 1..Len(auth) |->
                Red("Authenticity", "high", auth[i], "Verify part authenticity with Apple")]
        red_flags == RuleOrder(battery_red, cpu_red, mem_red, detection_red, auth_red)
    IN  IF throttled /\ "temp_after" \notin DOMAIN cpu_test
          THEN Raise(KeyError("temp_after"))
          ELSE [red_flags |-> red_flags,
                green_flags |-> battery_green \o cpu_green \o mem_green,
                total_issues |-> Len(red_flags),
                health_score |-> calculate_health_score(res, red_flags)]

\* generate_summary without the "if total > 0 else 0" of its pass_rate
generate_summary_Unguarded(res) ==
    LET total == Cardinality(DOMAIN res)
        passed == CountStatus(res, "pass")
    IN  IF total = 0
          THEN Raise("ZeroDivisionError")
          ELSE [total_tests |-> total,
                passed |-> passed,
                failed |-> CountStatus(res, "fail"),
                warnings |-> CountStatus(res, "warning"),
                pass_rate |-> RoundTenths(100 * passed, total)]

\* ReportGenerator.generate_summary; pass_rate in tenths
generate_summary(res) ==
    LET total == Cardinality(DOMAIN res)
        passed == CountStatus(res, "pass")
    IN  [total_tests |-> total,
         passed |-> passed,
         failed |-> CountStatus(res, "fail"),
         warnings |-> CountStatus(res, "warning"),
         pass_rate |-> IF total > 0 THEN RoundTenths(100 * passed, total) ELSE 0]

\* datetime.now().strftime('%Y%m%d_%H%M%S'): the second of the instant
strftime(t) == t \div TicksPerSecond

\* self.log_dir / f'hardware_report_{timestamp}.<ext>'
ReportFile(timestamp, ext) == [hardware_report |-> timestamp, ext |-> ext]

\* open(name, 'w') and the write by call number who: the file is created or
\* truncated; files keeps who wrote it, in order.
Write(f, name, who) == Put(f, name, Append(Get(f, name, << >>), who))

\* ------------------------------------------------------------------ server

\* POST /api/start_tests: a new runner replaces the global one and a thread
\* is started on its run_all_tests.
start_tests ==
    /\ started < MaxStarts
    /\ LET r == started + 1 IN
       /\ NewRunner(r)
       /\ test_runner' = r
       /\ pc' = [pc EXCEPT ![r] = "L25"]
    /\ started' = started + 1
    /\ UNCHANGED << results_vars, config, anomalies, status_vars, st_held, export_vars,
                    report_vars,
                    client_vars >>
    /\ Disturb

\* GET /api/test_status, "if test_runner:": without a runner the handler
\* answers {'status': 'idle', 'progress': 0}.
test_status ==
    /\ st_pc = "idle"
    /\ IF test_runner = 0
         THEN /\ st_last' = [status |-> "idle", progress |-> 0]
              /\ st_calm_calls' = 0
              /\ st_pc' = "idle"
         ELSE /\ st_last' = st_last
              /\ st_calm_calls' = st_calm_calls
              /\ st_pc' = "S50"
    /\ UNCHANGED << results_vars, core_vars, st_runner, st_ct, st_p, st_held, st_calm,
                    rs_calm,
                    export_vars, report_vars, client_vars >>

\* status = test_runner.get_status(): the global is read again, get_status
\* is entered on that runner and evaluates 'current_test': self.current_test
get_status_current_test ==
    /\ st_pc = "S50"
    /\ st_runner' = test_runner
    /\ st_held' = { Triple(test_runner) }
    /\ st_ct' = current_test[test_runner]
    /\ st_pc' = "G393"
    /\ st_calm' = TRUE
    /\ UNCHANGED << results_vars, core_vars, st_p, st_last, st_calm_calls, rs_calm,
                    export_vars,
                    report_vars, client_vars >>

\* get_status: 'progress': self.progress
get_status_progress ==
    /\ st_pc = "G393"
    /\ st_p' = progress[st_runner]
    /\ st_pc' = "G394"
    /\ UNCHANGED << results_vars, core_vars, st_runner, st_ct, st_last, hist_vars,
                    export_vars,
                    report_vars, client_vars >>

\* get_status: 'complete': self.complete; the dict is returned and the
\* handler answers with it.
get_status_complete ==
    /\ st_pc = "G394"
    /\ st_last' = [current_test |-> st_ct, progress |-> st_p,
                   complete |-> complete[st_runner]]
    /\ st_ct' = "None"
    /\ st_p' = 0
    /\ st_pc' = "idle"
    /\ st_calm_calls' = IF st_calm THEN (IF st_calm_calls = 0 THEN 1 ELSE 2) ELSE 0
    /\ st_calm' = FALSE
    /\ UNCHANGED << results_vars, core_vars, st_runner, st_held, rs_calm, export_vars,
                    report_vars,
                    client_vars >>

\* GET /api/export_report, "if test_runner:": without a runner the handler
\* answers {'error': 'No test data available'}.
export_report ==
    /\ ex_pc = "idle"
    /\ exports < MaxExports
    /\ exports' = exports + 1
    /\ ex_pc' = IF test_runner = 0 THEN "idle" ELSE "X72"
    /\ UNCHANGED << core_vars, status_vars, hist_vars, other_vars, ex_runner, ex_ts,
                    ex_flags,
                    ex_summary, ex_size, ex_report, files, clock >>

\* report_gen.export_full_report(test_runner.get_results()): the global is
\* read again; get_results returns the dict of the runner, not a copy.
export_get_results ==
    /\ ex_pc = "X72"
    /\ ex_runner' = test_runner
    /\ ex_pc' = "E128"
    /\ UNCHANGED << core_vars, status_vars, hist_vars, other_vars, ex_ts, ex_flags,
                    ex_summary,
                    ex_size, ex_report, exports, files, clock >>

\* timestamp = datetime.now().strftime('%Y%m%d_%H%M%S')
export_timestamp ==
    /\ ex_pc = "E128"
    /\ ex_ts' = strftime(clock)
    /\ ex_pc' = "E131"
    /\ UNCHANGED << core_vars, status_vars, hist_vars, other_vars, ex_runner, ex_flags,
                    ex_summary,
                    ex_size, ex_report, exports, files, clock >>

\* red_flags_data = self.detect_red_flags(results)
export_detect ==
    /\ ex_pc = "E131"
    /\ ex_flags' = detect_red_flags(results[ex_runner])
    /\ ex_pc' = "E132"
    /\ UNCHANGED << core_vars, status_vars, hist_vars, other_vars, ex_runner, ex_ts,
                    ex_summary,
                    ex_size, ex_report, exports, files, clock >>

\* summary = self.generate_summary(results)
export_summary ==
    /\ ex_pc = "E132"
    /\ ex_summary' = generate_summary(results[ex_runner])
    /\ ex_pc' = "E141"
    /\ UNCHANGED << core_vars, status_vars, hist_vars, other_vars, ex_runner, ex_ts,
                    ex_flags,
                    ex_size, ex_report, exports, files, clock >>

\* The locals of export_full_report when it has returned or raised.
ExportEnds ==
    /\ ex_pc' = "idle"
    /\ ex_runner' = 0
    /\ ex_ts' = 0
    /\ ex_flags' = << >>
    /\ ex_summary' = << >>
    /\ ex_size' = 0
    /\ ex_report' = << >>

\* with open(report_file, 'w') as f: json.dump(full_report, f, indent=2)
\* begins: the file is created or truncated and the encoder starts to iterate
\* over the results dict that full_report refers to.
export_open_json ==
    /\ ex_pc = "E141"
    /\ files' = Write(files, ReportFile(ex_ts, "json"), exports)
    /\ ex_size' = Cardinality(DOMAIN results[ex_runner])
    /\ ex_pc' = "E142"
    /\ UNCHANGED << core_vars, status_vars, hist_vars, other_vars, ex_runner, ex_ts,
                    ex_flags,
                    ex_summary, ex_report, exports, clock >>

\* json.dump ends.  The iteration of a dict that has grown since it began
\* raises RuntimeError, which leaves the handler; otherwise the report is
\* written with the results the dict holds.
export_dump ==
    /\ ex_pc = "E142"
    /\ IF Cardinality(DOMAIN results[ex_runner]) # ex_size
         THEN ExportEnds
         ELSE /\ ex_report' = [summary |-> ex_summary,
                               red_flags |-> ex_flags,
                               detailed_results |-> results[ex_runner]]
              /\ ex_pc' = "E145"
              /\ UNCHANGED << ex_runner, ex_ts, ex_flags, ex_summary, ex_size >>
    /\ UNCHANGED << core_vars, status_vars, hist_vars, other_vars, exports, files,
                    clock >>

\* text_report = self._generate_text_report(full_report) begins to iterate
\* over full_report['detailed_results'].items()
export_render_begin ==
    /\ ex_pc = "E145"
    /\ ex_size' = Cardinality(DOMAIN results[ex_runner])
    /\ ex_pc' = "E146"
    /\ UNCHANGED << core_vars, status_vars, hist_vars, other_vars, ex_runner, ex_ts,
                    ex_flags,
                    ex_summary, ex_report, exports, files, clock >>

\* _generate_text_report ends, with RuntimeError if the dict has grown.
export_render ==
    /\ ex_pc = "E146"
    /\ IF Cardinality(DOMAIN results[ex_runner]) # ex_size
         THEN ExportEnds
         ELSE /\ ex_pc' = "E148"
              /\ UNCHANGED << ex_runner, ex_ts, ex_flags, ex_summary, ex_size,
                    ex_report >>
    /\ UNCHANGED << core_vars, status_vars, hist_vars, other_vars, exports, files,
                    clock >>

\* with open(text_file, 'w') as f: f.write(text_report); return text_file
export_write_text ==
    /\ ex_pc = "E148"
    /\ files' = Write(files, ReportFile(ex_ts, "txt"), exports)
    /\ ExportEnds
    /\ UNCHANGED << core_vars, status_vars, hist_vars, other_vars, exports, clock >>

\* The wall clock advances.
Tick ==
    /\ clock < MaxClock
    /\ clock' = clock + 1
    /\ UNCHANGED << core_vars, status_vars, hist_vars, other_vars, ex_pc, ex_runner,
                    ex_ts, ex_flags,
                    ex_summary, ex_size, ex_report, exports, files >>

\* ------------------------------------------------ GET /api/results

\* The response of the handler of /api/results that found no complete run.
NotReady == [status |-> "not_ready"]

\* GET /api/results, "if test_runner and": without a runner the handler
\* answers {'status': 'not_ready'}.
api_results ==
    /\ rq_pc = "idle"
    /\ rq_runner' = 0
    /\ rq_size' = 0
    /\ IF test_runner = 0
         THEN rq_response' = NotReady /\ rq_pc' = "idle"
         ELSE rq_response' = << >> /\ rq_pc' = "R57"
    /\ UNCHANGED << core_vars, status_vars, hist_vars, export_vars, client_vars,
                    report_vars >>

\* "test_runner.is_complete()": the global is read again and self.complete
\* of that runner is returned.
api_results_is_complete ==
    /\ rq_pc = "R57"
    /\ rq_runner' = test_runner
    /\ IF complete[test_runner]
         THEN rq_response' = << >> /\ rq_pc' = "R58"
         ELSE rq_response' = NotReady /\ rq_pc' = "idle"
    /\ UNCHANGED << core_vars, status_vars, hist_vars, export_vars, client_vars,
                    report_vars, rq_size >>

\* results = test_runner.get_results(): the global is read a third time;
\* get_results returns the dict of that runner, not a copy.
api_results_get_results ==
    /\ rq_pc = "R58"
    /\ rq_runner' = test_runner
    /\ rq_pc' = "R59"
    /\ UNCHANGED << core_vars, status_vars, hist_vars, export_vars, client_vars,
                    report_vars, rq_size, rq_response >>

\* red_flags = report_gen.detect_red_flags(results)
api_results_detect ==
    /\ rq_pc = "R59"
    /\ rq_response' = [red_flags |-> detect_red_flags(results[rq_runner])]
    /\ rq_pc' = "R64"
    /\ UNCHANGED << core_vars, status_vars, hist_vars, export_vars, client_vars,
                    report_vars, rq_runner, rq_size >>

\* 'summary': report_gen.generate_summary(results), and jsonify begins to
\* iterate over results
api_results_summary ==
    /\ rq_pc = "R64"
    /\ rq_response' = [red_flags |-> rq_response.red_flags,
                       summary |-> generate_summary(results[rq_runner])]
    /\ rq_size' = Cardinality(DOMAIN results[rq_runner])
    /\ rq_pc' = "R61"
    /\ UNCHANGED << core_vars, status_vars, hist_vars, export_vars, client_vars,
                    report_vars, rq_runner >>

\* jsonify ends.  The iteration of a dict that has grown since it began
\* raises RuntimeError and the server answers 500; otherwise the response
\* carries the results the dict holds.
api_results_jsonify ==
    /\ rq_pc = "R61"
    /\ rq_response' =
          IF Cardinality(DOMAIN results[rq_runner]) # rq_size
            THEN [error |-> "RuntimeError: dictionary changed size during iteration"]
            ELSE [results |-> results[rq_runner],
                  red_flags |-> rq_response.red_flags,
                  summary |-> rq_response.summary]
    /\ rq_pc' = "idle"
    /\ UNCHANGED << core_vars, status_vars, hist_vars, export_vars, client_vars,
                    report_vars, rq_runner, rq_size >>

\* ------------------------------------------------- a caller of get_results

\* get_results that hands the dict over and leaves an empty one behind
caller_get_results_Drains ==
    /\ rs_pc \in { "c0", "c1" }
    /\ test_runner # 0
    /\ rs_value' = results[test_runner]
    /\ results' = [results EXCEPT ![test_runner] = EmptyDict]
    /\ rs_calm' = IF rs_pc = "c0" THEN TRUE ELSE rs_calm
    /\ rs_pc' = IF rs_pc = "c0" THEN "c1" ELSE "c2"
    /\ UNCHANGED << results_vars, config, test_runner, started, current_test, progress,
                    complete, pc,
                    idx, outcome, anomalies, status_vars, st_held, st_calm,
                    st_calm_calls, export_vars, report_vars >>

\* test_runner.get_results(), called twice in a row: return self.results.
\* The caller holds what the call returned, as it is at the return.
caller_get_results ==
    /\ rs_pc \in { "c0", "c1" }
    /\ test_runner # 0
    /\ rs_value' = results[test_runner]
    /\ rs_calm' = IF rs_pc = "c0" THEN TRUE ELSE rs_calm
    /\ rs_pc' = IF rs_pc = "c0" THEN "c1" ELSE "c2"
    /\ UNCHANGED << results_vars, core_vars, status_vars, st_held, st_calm,
                    st_calm_calls, export_vars,
                    report_vars >>

\* The caller has compared the two values and lets go of them.
caller_done ==
    /\ rs_pc = "c2"
    /\ rs_pc' = "c0"
    /\ rs_value' = << >>
    /\ rs_calm' = FALSE
    /\ UNCHANGED << results_vars, core_vars, status_vars, st_held, st_calm,
                    st_calm_calls, export_vars,
                    report_vars >>

\* ----------------------------------------------------------- report calls

\* A result collection holding one entry.
Entry(name, result) == Put(EmptyDict, name, result)

Messages == [i \in 1..MaxMessages |-> "message " \o ToString(i)]

\* The result collections passed to the report functions: every entry has a
\* 'status'; of the fields a probe reports any may be absent, an entry may be
\* the 'error' result that run_all_tests stores for a probe that raised, and
\* any probe may be absent.  A collection is made of one choice for each
\* group of probes that a rule of detect_red_flags reads, and one for the
\* rest; or it is the collection of a run in which every probe raised.
BatteryEntries ==
    { EmptyDict,
      Entry("Battery Health", [status |-> "pass", warnings |-> << >>]),
      Entry("Battery Health", Synthesized("OSError")) }
    \cup { Entry("Battery Health", [status |-> s]) : s \in { "warning", "fail" } }
    \cup { Entry("Battery Health", [status |-> s, warnings |-> SubSeq(Messages, 1, n)]) :
             s \in { "warning", "fail" }, n \in 0..MaxMessages }

CpuEntries ==
    { EmptyDict,
      Entry("CPU Stress Test", [status |-> "pass", throttled |-> FALSE, temp_after |-> 60]),
      Entry("CPU Stress Test", [status |-> "warning", throttled |-> TRUE, temp_after |-> 95]),
      Entry("CPU Stress Test", [status |-> "warning", throttled |-> TRUE]),
      Entry("CPU Stress Test", Synthesized(KeyError("stress_duration"))) }

MemoryEntries ==
    { EmptyDict,
      Entry("Memory Endurance", [status |-> "pass", errors_detected |-> FALSE]),
      Entry("Memory Endurance", [status |-> "fail", errors_detected |-> TRUE]),
      Entry("Memory Endurance", [status |-> "pass", errors_detected |-> TRUE]),
      Entry("Memory Endurance", Synthesized(KeyError("memory_test_mb"))) }

ComponentNames == { "Camera Module", "Microphone", "Audio System", "Bluetooth", "Wi-Fi" }

ComponentEntries ==
    { EmptyDict }
    \cup { [n \in ComponentNames |-> [status |-> IF n \in F THEN "fail" ELSE "pass"]] :
             F \in SUBSET ComponentNames }

AuthenticityEntries ==
    { EmptyDict,
      Entry("Part Authenticity", [status |-> "pass", red_flags |-> << >>]),
      Entry("Part Authenticity", Synthesized("CalledProcessError")) }
    \cup { Entry("Part Authenticity",
                 [status |-> "warning", red_flags |-> SubSeq(Messages, 1, n)]) :
             n \in 1..MaxMessages }

\* The probes no rule reads: only their 'status' is counted.
OtherNames == TestNames \ (ComponentNames \cup { "Battery Health", "CPU Stress Test",
                                                 "Memory Endurance", "Part Authenticity" })

OtherEntries ==
    { EmptyDict,
      [n \in OtherNames |-> [status |-> "pass"]],
      [n \in OtherNames |->
          CASE n = "System Information" -> [status |-> "fail", error |-> "CalledProcessError"]
            [] n = "MIDI System" -> Synthesized("PermissionError")
            [] n = "Thermal Monitoring" -> [status |-> "critical"]
            [] n = "SSD Health" -> [status |-> "warning"]
            [] OTHER -> [status |-> "pass"]] }

ResultCollections ==
    { b @@ c @@ m @@ k @@ a @@ o :
         b \in BatteryEntries, c \in CpuEntries, m \in MemoryEntries,
         k \in ComponentEntries, a \in AuthenticityEntries, o \in OtherEntries }
    \cup { [n \in TestNames |-> Synthesized("RuntimeError")] }

\* red_flags_data = report_gen.detect_red_flags(results)
call_detect_red_flags ==
    /\ rp_pc = "detect"
    /\ rp_flags' = detect_red_flags(rp_results)
    /\ rp_pc' = "summary"
    /\ UNCHANGED << results_vars, core_vars, status_vars, hist_vars, export_vars,
                    client_vars,
                    rp_results, rp_summary >>

\* summary = report_gen.generate_summary(results)
call_generate_summary ==
    /\ rp_pc = "summary"
    /\ rp_summary' = generate_summary(rp_results)
    /\ rp_pc' = "done"
    /\ UNCHANGED << results_vars, core_vars, status_vars, hist_vars, export_vars,
                    client_vars,
                    rp_results, rp_flags >>

\* ---------------------------------------------------------- specifications

\* The server after import: the configuration is loaded, no runner exists.
ServerInit ==
    /\ config \in Configs
    /\ test_runner = 0
    /\ started = 0
    /\ results = [r \in RunnerIds |-> EmptyDict]
    /\ current_test = [r \in RunnerIds |-> "None"]
    /\ progress = [r \in RunnerIds |-> 0]
    /\ complete = [r \in RunnerIds |-> FALSE]
    /\ pc = [r \in RunnerIds |-> "none"]
    /\ idx = [r \in RunnerIds |-> 0]
    /\ outcome = [r \in RunnerIds |-> EmptyDict]
    /\ anomalies = 0
    /\ st_pc = "idle"
    /\ st_runner = 0
    /\ st_ct = "None"
    /\ st_p = 0
    /\ st_last = << >>
    /\ st_held = {}
    /\ st_calm = FALSE
    /\ st_calm_calls = 0
    /\ rs_calm = FALSE
    /\ rs_pc = "c0"
    /\ rs_value = << >>
    /\ rq_pc = "idle"
    /\ rq_runner = 0
    /\ rq_size = 0
    /\ rq_response = << >>
    /\ ex_pc = "idle"
    /\ ex_runner = 0
    /\ ex_ts = 0
    /\ ex_flags = << >>
    /\ ex_summary = << >>
    /\ ex_size = 0
    /\ ex_report = << >>
    /\ exports = 0
    /\ files = EmptyDict
    /\ clock = 0

\* The server, and no call of the report functions outside its handlers.
Init ==
    /\ ServerInit
    /\ rp_pc = "none"
    /\ rp_results = EmptyDict
    /\ rp_flags = << >>
    /\ rp_summary = << >>

\* One run: a single start request, and the run loop of its runner.
FirstStart == started = 0 /\ start_tests

RunStep == \E r \in RunnerIds : run_all_tests(r, MaxAnomalies)

Next == FirstStart \/ RunStep

Spec == Init /\ [][Next]_vars

\* The thread of run_all_tests is scheduled again and again, and a probe that
\* was entered returns or raises.
FairSpec == Spec /\ WF_vars(RunStep)

\* The scenarios about the threads of the server draw no anomaly, and their
\* configuration is the complete one or one without stress_duration, with
\* which the CPU stress probe raises: the run loop takes both branches of
\* its try statement.
LeanInit == Init /\ (config = ConfigKeys \/ "stress_duration" \notin config)

LeanRunStep == \E r \in RunnerIds : run_all_tests(r, 0)

\* One run observed by a client that polls /api/test_status.
StatusNext ==
    \/ FirstStart
    \/ LeanRunStep
    \/ test_status
    \/ get_status_current_test
    \/ get_status_progress
    \/ get_status_complete

StatusSpec == LeanInit /\ [][StatusNext]_vars

\* One run, and a client that requests /api/export_report as the clock
\* advances.
ExportNext ==
    \/ FirstStart
    \/ LeanRunStep
    \/ export_report
    \/ export_get_results
    \/ export_timestamp
    \/ export_detect
    \/ export_summary
    \/ export_open_json
    \/ export_dump
    \/ export_render_begin
    \/ export_render
    \/ export_write_text
    \/ Tick

ExportSpec == LeanInit /\ [][ExportNext]_vars

\* A client that posts to /api/start_tests again and again.
ServerNext == start_tests \/ LeanRunStep

ServerSpec == LeanInit /\ [][ServerNext]_vars

\* One run, and one client that polls /api/test_status or, between two
\* polls, calls get_results twice.  The configuration is the one without
\* stress_duration, with which one probe raises and the others return.
SnapshotInit == Init /\ config = ConfigKeys \ { "stress_duration" }

PollStatus == rs_pc = "c0" /\ test_status

PairResults == st_pc = "idle" /\ caller_get_results

SnapshotNext ==
    \/ FirstStart
    \/ LeanRunStep
    \/ PollStatus
    \/ get_status_current_test
    \/ get_status_progress
    \/ get_status_complete
    \/ PairResults
    \/ caller_done

SnapshotSpec == SnapshotInit /\ [][SnapshotNext]_vars

\* Clients that post to /api/start_tests and request /api/results.
ResultsNext ==
    \/ start_tests
    \/ LeanRunStep
    \/ api_results
    \/ api_results_is_complete
    \/ api_results_get_results
    \/ api_results_detect
    \/ api_results_summary
    \/ api_results_jsonify

ResultsSpec == LeanInit /\ [][ResultsNext]_vars

\* The report functions called on a result collection.
ReportInit ==
    /\ ServerInit
    /\ config = ConfigKeys
    /\ rp_pc = "detect"
    /\ rp_results \in ResultCollections
    /\ rp_flags = << >>
    /\ rp_summary = << >>

ReportNext == call_detect_red_flags \/ call_generate_summary

ReportSpec == ReportInit /\ [][ReportNext]_vars

\* ------------------------------------------------------------------ claims

Constructed == 1..started

Invoked(r, i) == tests[i] \in DOMAIN outcome[r]

Raised(r, i) == Invoked(r, i) /\ outcome[r][tests[i]].kind = "raise"

Returned(r, i) == Invoked(r, i) /\ outcome[r][tests[i]].kind = "return"

\* The probes after every probe that has raised so far.
AfterRaised(r) ==
    { j \in 1..total_tests : \E i \in 1..(j - 1) : Raised(r, i) }

\* C1: failure isolation.  Once a probe has raised in run_all_tests, a state
\* is reached in which every run with a probe that raised has invoked every
\* later probe of the list, has an entry for each of them in its result
\* collection and has complete = True.
C1_FailureIsolation ==
    (\E r \in RunnerIds : \E i \in 1..total_tests : Raised(r, i)) ~>
        (\A r \in RunnerIds :
            (\E i \in 1..total_tests : Raised(r, i)) =>
                /\ complete[r]
                /\ \A j \in AfterRaised(r) :
                      Invoked(r, j) /\ tests[j] \in DOMAIN results[r])

C1_Witness ==
    \E r \in Constructed : \E i \in 1..(total_tests - 1) :
        /\ Raised(r, i)
        /\ complete[r]
        /\ \A j \in (i + 1)..total_tests : tests[j] \in DOMAIN results[r]

\* C2: every outcome is recorded.  Whenever complete is True the result
\* collection has an entry for exactly the configured probes; the entry of a
\* probe that returned is the returned result itself, the entry of a probe
\* that raised is {'status': 'error', 'message': <the fault>}.
C2_EveryOutcomeRecorded ==
    \A r \in RunnerIds :
        complete[r] =>
            /\ DOMAIN results[r] = TestNames
            /\ DOMAIN outcome[r] = TestNames
            /\ \A i \in 1..total_tests :
                  /\ Returned(r, i) => results[r][tests[i]] = outcome[r][tests[i]].value
                  /\ Raised(r, i) =>
                        results[r][tests[i]] =
                            [status |-> "error", message |-> outcome[r][tests[i]].message]

C2_Witness ==
    \E r \in Constructed :
        /\ complete[r]
        /\ \E i \in 1..total_tests : Raised(r, i)
        /\ \E i \in 1..total_tests :
              Returned(r, i) /\ outcome[r][tests[i]].value.status # "pass"

\* C3: monotonicity.  Over one run of run_all_tests on a fresh runner the
\* progress of the runner never decreases, complete never returns from True
\* to False, and of two successive answers of /api/test_status the later one
\* never reports the smaller progress.
C3_Monotonic ==
    [][/\ \A r \in RunnerIds :
            /\ progress'[r] >= progress[r]
            /\ complete[r] => complete'[r]
       /\ (st_last # << >> /\ st_last' # << >>) => st_last'.progress >= st_last.progress
      ]_vars

\* An answer has been given, the run has gone on to its end, and the next
\* get_status has read a larger progress than the answer held.
C3_Witness ==
    /\ st_last # << >>
    /\ "complete" \in DOMAIN st_last
    /\ st_pc = "G394"
    /\ st_p > st_last.progress
    /\ st_last.progress > 0
    /\ complete[st_runner]

\* C4: in every state of a runner, complete = True implies progress = 100.
C4_CompleteImpliesFull ==
    \A r \in RunnerIds : complete[r] => progress[r] = 100

C4_Witness == \E r \in Constructed : complete[r] /\ pc[r] = "L66"

\* The probes attempted by runner r whose progress update has been made:
\* between two updates idx counts them.
ProgressSet(r) == pc[r] \in { "L48", "L52", "probe", "L65", "L66", "done" } /\ idx[r] >= 1

\* C5 as stated: after the probe at index i has been attempted, progress is
\* 100 * (i + 1) / total_tests rounded to the nearest integer.
C5_ProgressRounded ==
    \A r \in RunnerIds :
        ProgressSet(r) => progress[r] = PyRound(100 * idx[r], total_tests)

\* C5 as amended: after the probe at index i has been attempted, progress is
\* 100 * (i + 1) / total_tests rounded down to an integer.
C5_ProgressTruncated ==
    \A r \in RunnerIds :
        ProgressSet(r) =>
            /\ progress[r] * total_tests <= 100 * idx[r]
            /\ 100 * idx[r] < (progress[r] + 1) * total_tests

\* The fourth probe has been attempted: 400 / 14 = 28.57.
C5_Witness ==
    \E r \in Constructed : ProgressSet(r) /\ idx[r] = 4 /\ progress[r] = 28

\* C6: status snapshots are atomic.  The triple that get_status returns is a
\* triple the runner held at one instant between the call and the return.
C6_AtomicSnapshot ==
    (st_pc = "idle" /\ st_last # << >> /\ "complete" \in DOMAIN st_last) =>
        st_last \in st_held

\* C7: an exported report is a consistent snapshot.  In the report that
\* export_full_report serializes, the summary and the red-flag data are those
\* of the result collection serialized as detailed_results.
C7_ConsistentReport ==
    ex_report # << >> =>
        /\ ex_report.summary.total_tests = Cardinality(DOMAIN ex_report.detailed_results)
        /\ ex_report.summary = generate_summary(ex_report.detailed_results)
        /\ ex_report.red_flags = detect_red_flags(ex_report.detailed_results)

\* C8: probes never execute concurrently.  In no state are two probe
\* invocations, of whichever runners, in progress.
C8_OneProbeAtATime ==
    \A r1, r2 \in RunnerIds :
        (pc[r1] = "probe" /\ pc[r2] = "probe") => r1 = r2

\* C9: export identifiers never collide.  No file is written by two calls of
\* export_full_report.
C9_NoCollision ==
    \A n \in DOMAIN files : Len(files[n]) <= 1

\* A fault that names a missing configuration entry.
ConfigFault(res) ==
    \E k \in ConfigKeys :
        \/ "error" \in DOMAIN res /\ res.error = KeyError(k)
        \/ "message" \in DOMAIN res /\ res.message = KeyError(k)

\* C10: a missing configuration entry is fatal at construction.  With an
\* entry missing from the config no HardwareTestRunner comes to exist, no
\* probe is executed, and no result reports the missing entry.
C10_MissingConfigFatal ==
    config # ConfigKeys =>
        /\ started = 0
        /\ \A r \in RunnerIds :
              /\ pc[r] = "none"
              /\ \A n \in DOMAIN results[r] : ~ConfigFault(results[r][n])

\* detect_red_flags was called and returned its dict.
DetectReturned == rp_pc \in { "summary", "done" } /\ "health_score" \in DOMAIN rp_flags

\* generate_summary was called and returned its dict.
SummaryReturned == rp_pc = "done" /\ "pass_rate" \in DOMAIN rp_summary

\* C11: for every result collection the health_score that detect_red_flags
\* returns lies between 0 and 100 (0 and 1000 tenths).
C11_ScoreInRange ==
    DetectReturned => rp_flags.health_score \in 0..1000

\* A collection with passed probes whose penalties exceed the base score:
\* the score is held at 0.
C11_Witness ==
    /\ DetectReturned
    /\ rp_flags.health_score = 0
    /\ CountStatus(rp_results, "pass") > 0
    /\ rp_flags.total_issues > 0

\* C12: for a collection of total > 0 entries the health_score is
\* max(0, 100 * passed / total - (20 * critical + 10 * high + 5 * medium))
\* rounded to one decimal: the returned number of tenths is within half a
\* tenth of that value.  passed counts the entries whose status is 'pass',
\* and the severities are counted over the red flags returned.
C12_ScoreFormula ==
    (DetectReturned /\ rp_results # EmptyDict) =>
        LET total == Cardinality(DOMAIN rp_results)
            passed == Cardinality({ n \in DOMAIN rp_results : rp_results[n].status = "pass" })
            flags == rp_flags.red_flags
            Flagged(s) == Len(SelectSeq(flags, LAMBDA f : f.severity = s))
            penalty == 20 * Flagged("critical") + 10 * Flagged("high") + 5 * Flagged("medium")
            raw == 100 * passed - penalty * total
            clamped == IF raw > 0 THEN raw ELSE 0
            score == rp_flags.health_score
        IN  /\ 2 * (10 * clamped - score * total) <= total
            /\ 2 * (score * total - 10 * clamped) <= total

\* A score that is rounded, of a collection with 'warning' results and
\* penalties.
C12_Witness ==
    /\ DetectReturned
    /\ CountStatus(rp_results, "warning") > 0
    /\ rp_flags.total_issues > 0
    /\ rp_flags.health_score % 10 # 0

\* C13: for the empty collection detect_red_flags returns no red flag, no
\* green flag, total_issues 0 and health_score 0, and generate_summary
\* returns total_tests 0, passed 0, failed 0, warnings 0 and pass_rate 0;
\* neither raises.
C13_EmptyCollection ==
    rp_results = EmptyDict =>
        /\ rp_pc \in { "summary", "done" } =>
               rp_flags = [red_flags |-> << >>, green_flags |-> << >>,
                           total_issues |-> 0, health_score |-> 0]
        /\ rp_pc = "done" =>
               rp_summary = [total_tests |-> 0, passed |-> 0, failed |-> 0,
                             warnings |-> 0, pass_rate |-> 0]

\* Both functions were called on the empty collection.
C13_Witness == rp_results = EmptyDict /\ rp_pc = "done" /\ rp_summary # << >>

\* The red flags of one component among those detect_red_flags returned.
FlagsOf(component) ==
    SelectSeq(rp_flags.red_flags, LAMBDA f : f.component = component)

\* All 14 probes have an entry, and those not in the set given passed and
\* report no anomaly.
OthersPassed(names) ==
    /\ DOMAIN rp_results = TestNames
    /\ \A n \in TestNames \ names :
          /\ rp_results[n].status = "pass"
          /\ ~Get(rp_results[n], "throttled", FALSE)
          /\ ~Get(rp_results[n], "errors_detected", FALSE)
          /\ Get(rp_results[n], "red_flags", << >>) = << >>

\* C14: when the status of the battery entry is 'fail' or 'warning', the
\* red flags of component 'Battery' are one of severity 'high' for each
\* warning message, in the order of the messages; when the 13 other probes
\* passed without anomaly and there is a single warning, total_issues is 1
\* and health_score is 82.9.
C14_BatteryRule ==
    (/\ DetectReturned
     /\ "Battery Health" \in DOMAIN rp_results
     /\ rp_results["Battery Health"].status \in { "fail", "warning" }) =>
        LET warnings == Get(rp_results["Battery Health"], "warnings", << >>)
            flags == FlagsOf("Battery")
        IN  /\ Len(flags) = Len(warnings)
            /\ \A i \in 1..Len(flags) :
                  flags[i].severity = "high" /\ flags[i].message = warnings[i]
            /\ (Len(warnings) = 1 /\ OthersPassed({ "Battery Health" })) =>
                  rp_flags.total_issues = 1 /\ rp_flags.health_score = 829

\* The battery reported one warning and the 13 other probes passed.
C14_Witness ==
    /\ DetectReturned
    /\ OthersPassed({ "Battery Health" })
    /\ rp_results["Battery Health"].status = "warning"
    /\ Len(Get(rp_results["Battery Health"], "warnings", << >>)) = 1

\* C15: detect_red_flags returns one 'Hardware Detection' red flag, of
\* severity 'medium', if at least one of Camera Module, Microphone, Audio
\* System, Bluetooth and Wi-Fi has status 'fail', and none otherwise; its
\* message names the failed components and only those; however many
\* failed, the penalty is 5: when the other probes passed without anomaly
\* the score is 100 * passed / 14 - 5, which is 80.7 for a failed camera
\* and microphone.
C15_ComponentRule ==
    DetectReturned =>
        LET order == << "Camera Module", "Microphone", "Audio System", "Bluetooth", "Wi-Fi" >>
            short == << "Camera", "Microphone", "Audio", "Bluetooth", "Wi-Fi" >>
            Failed(i) == order[i] \in DOMAIN rp_results /\ rp_results[order[i]].status = "fail"
            failed == { i \in 1..5 : Failed(i) }
            Named(i) == IF Failed(i) THEN << short[i] >> ELSE << >>
            names == Named(1) \o Named(2) \o Named(3) \o Named(4) \o Named(5)
            flags == FlagsOf("Hardware Detection")
            passed == 14 - Cardinality(failed)
            score == rp_flags.health_score
        IN  /\ Len(flags) = IF failed # {} THEN 1 ELSE 0
            /\ failed # {} =>
                  /\ flags[1].severity = "medium"
                  /\ flags[1].message = "Failed to detect: " \o Join(names, ", ")
                  /\ OthersPassed({ order[i] : i \in failed }) =>
                        /\ rp_flags.total_issues = 1
                        /\ 2 * (10 * (100 * passed - 5 * 14) - score * 14) <= 14
                        /\ 2 * (score * 14 - 10 * (100 * passed - 5 * 14)) <= 14
                        /\ failed = { 1, 2 } => score = 807

\* The camera and the microphone failed and the 12 other probes passed.
C15_Witness ==
    /\ DetectReturned
    /\ OthersPassed({ "Camera Module", "Microphone" })
    /\ rp_results["Camera Module"].status = "fail"
    /\ rp_results["Microphone"].status = "fail"
    /\ Len(FlagsOf("Hardware Detection")) = 1

\* C16: when the memory entry has errors_detected set, detect_red_flags
\* returns exactly one red flag of component 'Memory', of severity
\* 'critical', whatever the status of the entry and whatever the other
\* rules flag; when the entry is 'fail' and the 13 other probes passed
\* without anomaly, total_issues is 1 and health_score is 72.9.
C16_MemoryRule ==
    (/\ DetectReturned
     /\ "Memory Endurance" \in DOMAIN rp_results
     /\ Get(rp_results["Memory Endurance"], "errors_detected", FALSE)) =>
        /\ Len(FlagsOf("Memory")) = 1
        /\ FlagsOf("Memory")[1].severity = "critical"
        /\ \A i \in 1..Len(rp_flags.red_flags) :
              rp_flags.red_flags[i].severity = "critical" =>
                  rp_flags.red_flags[i].component = "Memory"
        /\ (rp_results["Memory Endurance"].status = "fail"
                /\ OthersPassed({ "Memory Endurance" })) =>
              rp_flags.total_issues = 1 /\ rp_flags.health_score = 729

\* Memory errors in an entry whose status is 'pass', beside red flags of
\* other rules.
C16_Witness ==
    /\ DetectReturned
    /\ "Memory Endurance" \in DOMAIN rp_results
    /\ rp_results["Memory Endurance"].status = "pass"
    /\ Len(FlagsOf("Memory")) = 1
    /\ rp_flags.total_issues > 2

\* The green flags among those detect_red_flags returned.
Green(message) == \E i \in 1..Len(rp_flags.green_flags) : rp_flags.green_flags[i] = message

\* The entry of a probe is present and holds the value given for a field.
Reports(name, field, value) ==
    /\ name \in DOMAIN rp_results
    /\ field \in DOMAIN rp_results[name]
    /\ rp_results[name][field] = value

\* C17: detect_red_flags returns a green flag only when the result of the
\* probe confirms health: 'Battery health normal' only for a battery entry
\* of status 'pass', 'CPU thermal performance optimal' only for a CPU entry
\* that reports throttled as false, 'Memory integrity verified' only for a
\* memory entry that reports errors_detected as false; an entry that holds
\* no such field, as the 'error' result run_all_tests stores for a probe
\* that raised, gets no green flag.
C17_GreenOnlyConfirmed ==
    DetectReturned =>
        /\ Green("Battery health normal") => Reports("Battery Health", "status", "pass")
        /\ Green("CPU thermal performance optimal") =>
              Reports("CPU Stress Test", "throttled", FALSE)
        /\ Green("Memory integrity verified") =>
              Reports("Memory Endurance", "errors_detected", FALSE)

\* C18: for every result collection whose entries have a 'status', whatever
\* other fields and probes are absent, detect_red_flags and generate_summary
\* return a value: neither raises.
C18_NeverRaises ==
    /\ rp_pc \in { "summary", "done" } => "health_score" \in DOMAIN rp_flags
    /\ rp_pc = "done" => "pass_rate" \in DOMAIN rp_summary

\* run_all_tests was entered on runner r.
RunStarted(r) == pc[r] # "none"

\* C20: in every state of a runner that a reader may observe, complete is
\* true exactly when current_test is 'Complete'; and while complete is false
\* and the run has started, current_test is the name of a probe, the one at
\* the loop index as long as the loop has not ended.
C20_SentinelAgrees ==
    \A r \in RunnerIds :
        /\ complete[r] <=> current_test[r] = "Complete"
        /\ (RunStarted(r) /\ ~complete[r]) =>
              /\ current_test[r] \in TestNames
              /\ idx[r] < total_tests => current_test[r] = tests[idx[r] + 1]

\* get_status returns, and the handler answers.
StatusReturns == st_pc = "G394" /\ st_pc' = "idle"

\* The second get_results of the caller returns.
ResultsReturnAgain == rs_pc = "c1" /\ rs_pc' = "c2"

\* C19: a get_status that returns when no step of the run loop was taken
\* since the get_status before it was called returns what that one
\* returned, and so does the second of two get_results; and no step of
\* either caller changes the state of a runner.
C19_SnapshotIdempotent ==
    [][ /\ (StatusReturns /\ st_calm_calls > 0) => st_last' = st_last
        /\ (ResultsReturnAgain /\ rs_calm) => rs_value' = rs_value
        /\ (st_pc' # st_pc \/ rs_pc' # rs_pc) =>
              UNCHANGED << results, current_test, progress, complete >> ]_vars

\* In the middle of a run, two get_status calls and then two get_results
\* calls have returned with no step of the run loop between them.
C19_Witness ==
    /\ st_calm_calls = 2
    /\ rs_pc = "c2"
    /\ rs_calm
    /\ rs_value # EmptyDict
    /\ ~st_last.complete

\* The first n probes of the list.
FirstProbes(n) == { tests[j] : j \in 1..n }

\* The thread of runner r enters the probe at its loop index.
Invokes(r) == pc[r] = "L52" /\ pc'[r] = "probe"

\* C21: whenever run_all_tests invokes a probe, that probe is the one
\* marked as current_test, the probes invoked before it are exactly those
\* that precede it in the list, each of them has its result stored, and
\* progress has been set for the last of them: every probe is invoked in
\* the order of the list and none twice; and a run that is complete has
\* invoked every probe.
C21_ProbeOrdering ==
    [][ \A r \in RunnerIds :
          /\ Invokes(r) =>
                /\ current_test[r] = tests[idx[r] + 1]
                /\ DOMAIN outcome[r] = FirstProbes(idx[r])
                /\ DOMAIN results[r] = FirstProbes(idx[r])
                /\ progress[r] = (100 * idx[r]) \div total_tests
          /\ complete'[r] => DOMAIN outcome'[r] = TestNames ]_vars

\* A probe is being executed after the probe before it raised.
C21_Witness ==
    \E r \in RunnerIds :
        /\ pc[r] = "probe"
        /\ idx[r] >= 1
        /\ Raised(r, idx[r])
        /\ results[r][tests[idx[r]]].status = "error"

\* C22: in every value detect_red_flags returns, the red flags are in the
\* order of the rules, whatever their severity: those of Battery, then that
\* of CPU/Thermal, of Memory, of Hardware Detection, then those of
\* Authenticity; and total_issues is the number of red flags.
C22_RuleOrder ==
    DetectReturned =>
        LET flags == rp_flags.red_flags
            Rank(f) == CASE f.component = "Battery" -> 1
                         [] f.component = "CPU/Thermal" -> 2
                         [] f.component = "Memory" -> 3
                         [] f.component = "Hardware Detection" -> 4
                         [] f.component = "Authenticity" -> 5
                         [] OTHER -> 0
        IN  /\ \A i \in 1..Len(flags) : Rank(flags[i]) > 0
            /\ \A i, j \in 1..Len(flags) : i < j => Rank(flags[i]) <= Rank(flags[j])
            /\ Len(FlagsOf("CPU/Thermal")) <= 1
            /\ Len(FlagsOf("Memory")) <= 1
            /\ Len(FlagsOf("Hardware Detection")) <= 1
            /\ rp_flags.total_issues = Len(flags)

\* Every rule raised a red flag, several of them the battery rule and the
\* authenticity rule: the 'critical' flag follows 'high' ones and the
\* 'medium' flag precedes 'high' ones.
C22_Witness ==
    /\ DetectReturned
    /\ Len(FlagsOf("Battery")) = MaxMessages
    /\ Len(FlagsOf("CPU/Thermal")) = 1
    /\ Len(FlagsOf("Memory")) = 1
    /\ Len(FlagsOf("Hardware Detection")) = 1
    /\ Len(FlagsOf("Authenticity")) = MaxMessages

\* C23: in every state of a run on a new runner, the keys of the result
\* collection are the first k probes of the list for some k, and progress
\* is at most 100 * k / total_tests: progress never counts a probe whose
\* result is not stored.
C23_ProgressNeverAhead ==
    \A r \in RunnerIds :
        \E k \in 0..total_tests :
            /\ DOMAIN results[r] = FirstProbes(k)
            /\ progress[r] * total_tests <= 100 * k

\* A result is stored and progress does not count it yet.
C23_Witness ==
    \E r \in RunnerIds :
        /\ pc[r] = "L63"
        /\ Cardinality(DOMAIN results[r]) = idx[r] + 1
        /\ idx[r] >= 1
        /\ progress[r] = (100 * idx[r]) \div total_tests

\* The handler of /api/results has answered.
Answered == rq_pc = "idle" /\ rq_response # << >>

\* C24: every response of /api/results is 'not_ready' or carries results,
\* and the results it carries have an entry for every probe and are the
\* result collection of a runner whose run is complete, however the
\* handler is interleaved with /api/start_tests and with the run loops.
C24_NeverPartial ==
    Answered =>
        \/ rq_response = NotReady
        \/ /\ "results" \in DOMAIN rq_response
           /\ DOMAIN rq_response.results = TestNames
           /\ \E r \in RunnerIds : complete[r] /\ results[r] = rq_response.results

====
